---- MODULE Spec2Model ----
(***************************************************************************)
(* PaymentService (src/src/PaymentService.ts): the x402 request /          *)
(* challenge / pay / retry flows of the current class (lines 56-515):      *)
(* generateAIResponse, generateAIResponseEscrow, getProxyEndpoint and      *)
(* getProxyEndpointEscrow.  One invocation is one sequential chain of      *)
(* awaits; every await is a step at which the environment (the HTTP        *)
(* transport or the ledger client) answers, and the action of that step    *)
(* runs the code up to the next await.                                     *)
(***************************************************************************)
EXTENDS Integers, Sequences, FiniteSets, TLC

VARIABLES
    config,           \* the PaymentServiceConfig the constructor is given
    service,          \* the instance: its fields once constructed
    suspended,        \* locals of the caller's other invocations, each waiting at an await
    invocations,      \* how many invocations the caller has made on the service
    op,               \* the public operation invoked ("none" before the call)
    slug,             \* gatewaySlug / agentSlug argument
    message,          \* message argument (agent flows)
    paymentData,      \* params.paymentData argument (payAndRetry)
    pc,               \* the await the invocation is suspended at
    trace,            \* this invocation's fetches, ledger calls and resolved waits, in order
    initialResponse,  \* local initialResponse
    txResponse,       \* local txResponse (the payment transaction)
    receipt,          \* local receipt (of the payment transaction)
    retryResponse,    \* local retryResponse; in payAndRetry, what retryRequest settled with
    result            \* what the caller gets: a returned value or a thrown error

vars == <<config, service, suspended, invocations, op, slug, message, paymentData, pc, trace, initialResponse, txResponse, receipt,
          retryResponse, result>>

---------------------------------------------------------------------------
(* Values *)

\* JavaScript undefined: a field the JSON body does not have
Absent == "<undefined>"

\* !x for the string-or-undefined values of a challenge
Falsy(v) == v \in {Absent, ""}

MUSD_ADDRESS == "0x4dABf45C8cF333Ef1e874c3FDFC3C86799af80c8"

\* this.apiBaseUrl
ApiBaseUrl == "https://x402-services.vercel.app"

DECIMALS == 6

\* invocations made one after another on one service instance
MaxInvocations == 2

PAYMENT_REQUIRED == 402

Slugs == {"test09"}

Messages == {"Hello"}

ReceiverAddresses == {Absent, "0xReceiver", "not-an-address"}

EscrowAddresses == {Absent, "0xEscrow", "not-an-address"}

\* what ethers.isAddress accepts
ValidAddresses == {"0xReceiver", "0xEscrow", MUSD_ADDRESS}

TransactionIds == {Absent, "0xTx9"}

\* paymentDetail.amount as its toString() text
AmountTexts == {"1.5", "2", "0.000001", "1.1234567", "abc", "-1"}

Hashes == {"0xHashA", "0xHashB"}

Statuses == {200, 201, 402, 403, 500}

---------------------------------------------------------------------------
(* Response bodies.  A body is the text the server sent: the text of a     *)
(* JSON object, the text "null", or text that is not JSON.                 *)

\* a JavaScript object: a record of the properties it has
Object(t, a, r, e) ==
    LET all     == [transactionId |-> t, amount |-> a, receiverAddress |-> r,
                    escrowAddress |-> e]
        present == {f \in DOMAIN all : all[f] # Absent}
    IN  [f \in present |-> all[f]]

\* obj.f: undefined for a property the object does not have
Prop(obj, f) == IF f \in DOMAIN obj THEN obj[f] ELSE Absent

JsonText(obj) == [kind |-> "object", object |-> obj]

NullText == [kind |-> "null"]

ForbiddenText == [kind |-> "text", text |-> "forbidden"]

\* 402 bodies: JSON objects with any subset of the challenge fields
ChallengeBodies ==
    { JsonText(Object(t, a, r, e)) :
        t \in TransactionIds, a \in AmountTexts \cup {Absent},
        r \in ReceiverAddresses, e \in EscrowAddresses }

ContentBodies == { JsonText([data |-> d]) : d \in {"free", "paid"} }

InitialBodies == ChallengeBodies \cup ContentBodies \cup {NullText, ForbiddenText}

RetryBodies == ContentBodies \cup {NullText, ForbiddenText}

Response(s, b) == [status |-> s, body |-> b]

\* no response yet
NoResponse == [none |-> TRUE]

\* Response.ok
Ok(resp) == resp.status >= 200 /\ resp.status <= 299

\* the value JSON.parse gives for the text "null"
JsNull == [null |-> TRUE]

\* Response.json(): the parsed value, or a SyntaxError for a body that is not JSON
ParseJson(b) ==
    CASE b.kind = "object" -> [ok |-> TRUE, value |-> b.object]
      [] b.kind = "null"   -> [ok |-> TRUE, value |-> JsNull]
      [] OTHER             -> [ok |-> FALSE]

\* Response.text(): the body as sent
ResponseText(resp) == resp.body

---------------------------------------------------------------------------
(* Errors: a name and a message (the sequence of its text parts); an error *)
(* built from a response also carries the status and the body text its     *)
(* message was formatted with.                                             *)

Error(name, msg) == [name |-> name, message |-> msg]

\* new Error(msg)
PlainError(msg) == Error("Error", <<msg>>)

\* what the transport and the ledger client throw
FetchFailed == Error("TypeError", <<"fetch failed">>)

JsonSyntaxError == Error("SyntaxError", <<"Unexpected token in JSON">>)

LedgerRejected == PlainError("ledger call rejected")

WaitRejected == PlainError("transaction wait rejected")

\* TypeError of amountPayment.toString() when the body has no amount
NoAmountError ==
    Error("TypeError", <<"Cannot read properties of undefined (reading 'toString')">>)

---------------------------------------------------------------------------
(* ethers.parseUnits(text, decimals): the decimal text scaled to an        *)
(* integer of base units.  The text must match -?[0-9]*\.?[0-9]* with at   *)
(* least one digit, and may not carry more fractional digits than          *)
(* decimals unless the extra ones are zeros.                               *)

Chars(s) ==
    CASE s = "1.5"       -> <<"1", ".", "5">>
      [] s = "2"         -> <<"2">>
      [] s = "0.000001"  -> <<"0", ".", "0", "0", "0", "0", "0", "1">>
      [] s = "1.1234567" -> <<"1", ".", "1", "2", "3", "4", "5", "6", "7">>
      [] s = "abc"       -> <<"a", "b", "c">>
      [] s = "-1"        -> <<"-", "1">>
      [] s = ""          -> <<>>

Digits == {"0", "1", "2", "3", "4", "5", "6", "7", "8", "9"}

DigitValue(c) ==
    CASE c = "0" -> 0 [] c = "1" -> 1 [] c = "2" -> 2 [] c = "3" -> 3 [] c = "4" -> 4
      [] c = "5" -> 5 [] c = "6" -> 6 [] c = "7" -> 7 [] c = "8" -> 8 [] c = "9" -> 9

RECURSIVE Pow10(_)
Pow10(n) == IF n = 0 THEN 1 ELSE 10 * Pow10(n - 1)

\* the number a sequence of digits writes (0 for no digits)
RECURSIVE DigitsValue(_)
DigitsValue(ds) ==
    IF ds = <<>> THEN 0
    ELSE 10 * DigitsValue(SubSeq(ds, 1, Len(ds) - 1)) + DigitValue(ds[Len(ds)])

\* ds padded with zeros on the right to at least n digits
RECURSIVE PadRight(_, _)
PadRight(ds, n) == IF Len(ds) >= n THEN ds ELSE PadRight(Append(ds, "0"), n)

ParseUnits(s, decimals) ==
    LET cs       == Chars(s)
        negative == cs # <<>> /\ cs[1] = "-"
        rest     == IF negative THEN Tail(cs) ELSE cs
        dots     == {i \in 1..Len(rest) : rest[i] = "."}
        dot      == IF dots = {} THEN Len(rest) + 1 ELSE CHOOSE i \in dots : TRUE
        whole    == SubSeq(rest, 1, dot - 1)
        decimal  == SubSeq(rest, dot + 1, Len(rest))
        matches  == /\ Cardinality(dots) <= 1
                    /\ \A i \in 1..Len(whole) : whole[i] \in Digits
                    /\ \A i \in 1..Len(decimal) : decimal[i] \in Digits
                    /\ Len(whole) + Len(decimal) > 0
        padded   == PadRight(decimal, decimals)
        tooMany  == \E i \in (decimals + 1)..Len(padded) : padded[i] # "0"
        scaled   == DigitsValue(whole) * Pow10(decimals)
                      + DigitsValue(SubSeq(padded, 1, decimals))
    IN  IF ~matches
          THEN [ok |-> FALSE, error |-> PlainError("invalid FixedNumber string value")]
        ELSE IF tooMany
          THEN [ok |-> FALSE, error |-> PlainError("too many decimals for format")]
        ELSE [ok |-> TRUE, value |-> IF negative THEN 0 - scaled ELSE scaled]

---------------------------------------------------------------------------
(* Requests, ledger calls and what the environment answers *)

Headers(contentType, accept, paymentTx) ==
    [contentType |-> contentType, accept |-> accept, paymentTx |-> paymentTx]

NoHeaders == Headers(Absent, Absent, Absent)

Request(method, url, headers, body) ==
    [method |-> method, url |-> url, headers |-> headers, body |-> body]

\* JSON.stringify({ message: message })
JsonStringifyMessage(m) == <<"{\"message\":\"", m, "\"}">>

\* a request without a body
NoRequestBody == <<>>

\* trace entries
Fetch(req) == [ev |-> "fetch", req |-> req]

Call(fn, contract, args) == [ev |-> "call", fn |-> fn, contract |-> contract, args |-> args]

Waited(fn, rcpt) == [ev |-> "waited", fn |-> fn, receipt |-> rcpt]

Receipt(status, hash) == [present |-> TRUE, status |-> status, hash |-> hash]

\* wait() resolved with null
NullReceipt == [present |-> FALSE]

\* locals not assigned yet
NoTx == [none |-> TRUE]

NoReceipt == [none |-> TRUE]

NoResult == [kind |-> "none"]

\* paymentData in a method that takes none
NoPaymentData == [amount |-> Absent, recipient |-> Absent]

\* undefined, where the other values are objects
Undefined == [undefined |-> TRUE]

\* an amount as the ledger client is handed it: a bigint (what parseUnits returns)
\* or the number the JSON body held
BigInt(n) == [bigint |-> n]

JsonNumber(n) == [number |-> n]

\* fetch(): the transport throws, or a response arrives
FetchOutcomes(bodies) ==
    {[threw |-> TRUE]}
      \cup {[threw |-> FALSE, response |-> Response(st, b)] : st \in Statuses, b \in bodies}

\* whether the ledger client can encode the call at all: an undefined address or
\* transaction id and a negative uint256 are rejected before anything is sent; a
\* string that is no address is resolved as a name, which may or may not succeed
Encodable(call) ==
    LET amount == call.args[Len(call.args)]
    IN  /\ call.contract # Absent
        /\ \A i \in 1..(Len(call.args) - 1) : call.args[i] # Absent
        /\ amount # Undefined
        /\ IF "bigint" \in DOMAIN amount THEN amount.bigint >= 0 ELSE amount.number >= 0

\* contract.fn(...): the call rejects, or a transaction response arrives
CallOutcomes(call) ==
    {[threw |-> TRUE]}
      \cup {[threw |-> FALSE, tx |-> [hash |-> h]] : h \in IF Encodable(call) THEN Hashes ELSE {}}

\* tx.wait(1): rejects, resolves with null, or resolves with a receipt
WaitOutcomes ==
    {[threw |-> TRUE], [threw |-> FALSE, receipt |-> NullReceipt]}
      \cup {[threw |-> FALSE, receipt |-> Receipt(st, h)] : st \in {0, 1}, h \in Hashes}

---------------------------------------------------------------------------
(* Pieces of the four flows that read the same in each *)

\* the status left out of the error
UnexpectedStatusWithoutCode(status) == PlainError("Unexpected status code: ")

\* throw new Error(`Unexpected status code: ${status}`)
UnexpectedStatus(status) ==
    [name |-> "Error", message |-> <<"Unexpected status code: ">>, status |-> status]

\* the response text left out of the error
RetryFailedWithoutText(resp) ==
    [name |-> "Error", message |-> <<"Retry failed: ">>, status |-> resp.status]

\* throw new Error(`Retry failed: ${retryResponse.status} - ${errorText}`)
RetryFailed(resp) ==
    [name |-> "Error", message |-> <<"Retry failed: ", " - ">>, status |-> resp.status,
     text |-> ResponseText(resp)]

ReceiverNotFound == PlainError("Receiver address not found in payment details.")

\* catch of the agent flows: `PaymentService Failed: ${error.message}`
AgentCatch(e) ==
    [e EXCEPT !.name = "Error", !.message = <<"PaymentService Failed: ">> \o e.message]

\* catch of the resource flows: `Proxy Endpoint Failed: ${error}`, the error itself
\* in the template, which writes its name before its message
ProxyCatch(e) ==
    [e EXCEPT !.name = "Error",
              !.message = <<"Proxy Endpoint Failed: ", e.name, ": ">> \o e.message]

\* the transport's error left out of the wrapping error
InitialEndpointFailedWithoutCause(e) == PlainError("Initial Endpoint Failed: ")

\* inner catch of the initial fetch: new Error(`Initial Endpoint Failed: ${e}`)
InitialEndpointFailed(e) ==
    Error("Error", <<"Initial Endpoint Failed: ", e.name, ": ">> \o e.message)

\* catch of the older getProxyEndpoint: `Proxy Endpoint Failed: ${errorMessage}`,
\* the message of the error
ProxyCatch2(e) ==
    [e EXCEPT !.name = "Error", !.message = <<"Proxy Endpoint Failed: ">> \o e.message]

\* the catch block of each flow
Caught(o, e) ==
    CASE o = "generateAIResponse"       -> AgentCatch(e)
      [] o = "generateAIResponseEscrow" -> AgentCatch(e)
      [] o = "getProxyEndpoint"         -> ProxyCatch(e)
      [] o = "getProxyEndpointEscrow"   -> ProxyCatch(e)
      [] o = "generateAIResponse2"      -> AgentCatch(e)
      [] o = "getProxyEndpoint2"        -> ProxyCatch2(e)
      [] o = "payAndRetry"              -> AgentCatch(e)

\* the retry posting a fixed greeting instead of the caller's message
generateAIResponse_retryRequestOfGreeting(finalTxHash) ==
    Request("POST", <<ApiBaseUrl, "/agent/", slug, "/chat">>,
            Headers("application/json", Absent, finalTxHash), JsonStringifyMessage("Hello"))

generateAIResponse_url == <<ApiBaseUrl, "/agent/", slug, "/chat">>

generateAIResponse_retryRequest(finalTxHash) ==
    Request("POST", generateAIResponse_url,
            Headers("application/json", Absent, finalTxHash), JsonStringifyMessage(message))

generateAIResponseEscrow_url == <<ApiBaseUrl, "/agent/escrow/", slug, "/chat">>

generateAIResponseEscrow_retryRequest(finalTxHash) ==
    Request("POST", generateAIResponseEscrow_url,
            Headers("application/json", "application/json", finalTxHash),
            JsonStringifyMessage(message))

getProxyEndpoint_url == <<ApiBaseUrl, "/", slug>>

getProxyEndpoint_retryRequest(finalTxHash) ==
    Request("GET", getProxyEndpoint_url, Headers(Absent, Absent, finalTxHash), NoRequestBody)

getProxyEndpointEscrow_url == <<ApiBaseUrl, "/escrow/", slug>>

getProxyEndpointEscrow_retryRequest(finalTxHash) ==
    Request("GET", getProxyEndpointEscrow_url, Headers(Absent, Absent, finalTxHash),
            NoRequestBody)

\* BASE_ENDPOINT of the older class
BASE_ENDPOINT == "https://x402-services.vercel.app"

generateAIResponse2_url == <<BASE_ENDPOINT, "/agent/", slug, "/chat">>

generateAIResponse2_retryRequest(finalTxHash) ==
    Request("POST", generateAIResponse2_url,
            Headers("application/json", Absent, finalTxHash), JsonStringifyMessage(message))

\* the retry of the older getProxyEndpoint asks for `${BASE_ENDPOINT}/${gatewaySlug}`
getProxyEndpoint2_url == <<BASE_ENDPOINT, "/", slug>>

getProxyEndpoint2_retryRequest(finalTxHash) ==
    Request("GET", getProxyEndpoint2_url, Headers("application/json", Absent, finalTxHash),
            NoRequestBody)

\* the retry fetch of each flow
RetryRequest(o, finalTxHash) ==
    CASE o = "generateAIResponse"       -> generateAIResponse_retryRequest(finalTxHash)
      [] o = "generateAIResponseEscrow" -> generateAIResponseEscrow_retryRequest(finalTxHash)
      [] o = "getProxyEndpoint"         -> getProxyEndpoint_retryRequest(finalTxHash)
      [] o = "getProxyEndpointEscrow"   -> getProxyEndpointEscrow_retryRequest(finalTxHash)
      [] o = "generateAIResponse2"      -> generateAIResponse2_retryRequest(finalTxHash)
      [] o = "getProxyEndpoint2"        -> getProxyEndpoint2_retryRequest(finalTxHash)

\* a body without an amount taken for a challenge of amount "2"
PaymentDetailDefaultingAmount(resp, notFound) ==
    LET parsed == ParseJson(resp.body)
        detail == parsed.value
        text   == IF Prop(detail, "amount") = Absent THEN "2" ELSE Prop(detail, "amount")
        amount == ParseUnits(text, DECIMALS)
    IN  IF ~parsed.ok THEN [ok |-> FALSE, error |-> JsonSyntaxError]
        ELSE IF detail = JsNull THEN [ok |-> FALSE, error |-> PlainError(notFound)]
        ELSE IF ~amount.ok THEN [ok |-> FALSE, error |-> amount.error]
        ELSE IF Falsy(Prop(detail, "receiverAddress"))
          THEN [ok |-> FALSE, error |-> ReceiverNotFound]
        ELSE [ok |-> TRUE,
              transactionId |-> Prop(detail, "transactionId"),
              escrowAddress |-> Prop(detail, "escrowAddress"),
              receiverAddress |-> Prop(detail, "receiverAddress"),
              amount |-> BigInt(amount.value)]

\* from `await initialResponse.json()` to the receiver check: the challenge read
\* from the body, or the error thrown on the way
PaymentDetail(resp, notFound) ==
    LET parsed == ParseJson(resp.body)
        detail == parsed.value
        amount == ParseUnits(Prop(detail, "amount"), DECIMALS)
    IN  IF ~parsed.ok THEN [ok |-> FALSE, error |-> JsonSyntaxError]
        ELSE IF detail = JsNull THEN [ok |-> FALSE, error |-> PlainError(notFound)]
        ELSE IF Prop(detail, "amount") = Absent THEN [ok |-> FALSE, error |-> NoAmountError]
        ELSE IF ~amount.ok THEN [ok |-> FALSE, error |-> amount.error]
        ELSE IF Falsy(Prop(detail, "receiverAddress"))
          THEN [ok |-> FALSE, error |-> ReceiverNotFound]
        ELSE [ok |-> TRUE,
              transactionId |-> Prop(detail, "transactionId"),
              escrowAddress |-> Prop(detail, "escrowAddress"),
              receiverAddress |-> Prop(detail, "receiverAddress"),
              amount |-> BigInt(amount.value)]

\* the invocation ends by throwing e to the caller
Fail(e) ==
    /\ pc' = "failed"
    /\ result' = [kind |-> "threw", error |-> e]

\* the invocation ends by returning the parsed body
Return(o, resp) ==
    IF ParseJson(resp.body).ok
      THEN /\ pc' = "returned"
           /\ result' = [kind |-> "returned", value |-> ParseJson(resp.body).value]
      ELSE Fail(Caught(o, JsonSyntaxError))

\* the invocation goes on to its next await
Goto(label) == pc' = label /\ UNCHANGED result

IsFetch(e) == e.ev = "fetch"

IsCall(e) == e.ev = "call"

\* the last ledger call of the trace: the one the pending await belongs to
PendingCall == SelectSeq(trace, IsCall)[Len(SelectSeq(trace, IsCall))]

\* `await contract.fn(...)` resolves; the code then awaits tx.wait(1)
Submitted(o, at, next) ==
    /\ op = o /\ pc = at
    /\ \E out \in CallOutcomes(PendingCall) :
         IF out.threw
           THEN Fail(Caught(o, LedgerRejected)) /\ UNCHANGED txResponse
           ELSE /\ Goto(next)
                /\ txResponse' = IF at = "pay" THEN out.tx ELSE txResponse
    /\ UNCHANGED <<config, service, suspended, invocations, op, slug, message, paymentData, trace, initialResponse, receipt, retryResponse>>

\* only a missing receipt counts as a failure
PaymentFailedIfMissing(rcpt) == ~rcpt.present

\* if (!receipt || receipt.status !== 1)
PaymentFailed(rcpt) == ~rcpt.present \/ rcpt.status # 1

\* the hash of the transaction response instead of the receipt's
FinalTxHashOfResponse(rcpt, tx) == tx.hash

\* the hash of the receipt another invocation holds, when there is one
FinalTxHashOfOther(rcpt, tx) ==
    IF suspended # <<>> /\ "hash" \in DOMAIN suspended[1].receipt
      THEN suspended[1].receipt.hash
      ELSE rcpt.hash

\* const finalTxHash = receipt.hash
FinalTxHash(rcpt, tx) == rcpt.hash

\* the retry issued whatever the receipt is
ConfirmedUnchecked(o, failed) ==
    /\ op = o /\ pc = "payWait"
    /\ \E out \in WaitOutcomes :
         IF out.threw
           THEN Fail(Caught(o, WaitRejected)) /\ UNCHANGED <<trace, receipt>>
           ELSE /\ receipt' = out.receipt
                /\ Goto("retryFetch")
                /\ trace' = trace \o <<Waited(PendingCall.fn, out.receipt),
                                       Fetch(RetryRequest(o, IF out.receipt.present
                                                               THEN out.receipt.hash
                                                               ELSE Absent))>>
    /\ UNCHANGED <<config, service, suspended, invocations, op, slug, message, paymentData, initialResponse, txResponse, retryResponse>>

\* `const receipt = await txResponse.wait(1)` resolves: the receipt check, the
\* proof header and the retry fetch
Confirmed(o, failed) ==
    /\ op = o /\ pc = "payWait"
    /\ \E out \in WaitOutcomes :
         IF out.threw
           THEN Fail(Caught(o, WaitRejected)) /\ UNCHANGED <<trace, receipt>>
           ELSE /\ receipt' = out.receipt
                /\ IF PaymentFailed(out.receipt)
                     THEN /\ Fail(Caught(o, PlainError(failed)))
                          /\ trace' = Append(trace, Waited(PendingCall.fn, out.receipt))
                     ELSE /\ Goto("retryFetch")
                          /\ trace' = trace \o <<Waited(PendingCall.fn, out.receipt),
                                                 Fetch(RetryRequest(o, FinalTxHash(out.receipt, txResponse)))>>
    /\ UNCHANGED <<config, service, suspended, invocations, op, slug, message, paymentData, initialResponse, txResponse, retryResponse>>

\* a retry whose transport failure is answered with one more fetch
RetriedFetchingAgain(o) ==
    /\ op = o /\ pc = "retryFetch"
    /\ \E out \in FetchOutcomes(RetryBodies) :
         IF out.threw
           THEN /\ Fail(Caught(o, FetchFailed))
                /\ trace' = Append(trace, trace[Len(trace)])
                /\ UNCHANGED retryResponse
           ELSE /\ retryResponse' = out.response
                /\ UNCHANGED trace
                /\ IF ~Ok(out.response)
                     THEN Fail(Caught(o, RetryFailed(out.response)))
                     ELSE Return(o, out.response)
    /\ UNCHANGED <<config, service, suspended, invocations, op, slug, message, paymentData, initialResponse, txResponse, receipt>>

\* a retry that is fetched again when the server refuses it
RetriedUntilOk(o) ==
    /\ op = o /\ pc = "retryFetch"
    /\ \E out \in FetchOutcomes(RetryBodies) :
         IF out.threw
           THEN Fail(Caught(o, FetchFailed)) /\ UNCHANGED <<trace, retryResponse>>
           ELSE /\ retryResponse' = out.response
                /\ IF ~Ok(out.response)
                     THEN /\ Goto("retryFetch")
                          /\ trace' = Append(trace, trace[Len(trace)])
                     ELSE Return(o, out.response) /\ UNCHANGED trace
    /\ UNCHANGED <<config, service, suspended, invocations, op, slug, message, paymentData, initialResponse, txResponse, receipt>>

\* `await fetch(...)` of the retry resolves
Retried(o) ==
    /\ op = o /\ pc = "retryFetch"
    /\ \E out \in FetchOutcomes(RetryBodies) :
         IF out.threw
           THEN Fail(Caught(o, FetchFailed)) /\ UNCHANGED retryResponse
           ELSE /\ retryResponse' = out.response
                /\ IF ~Ok(out.response)
                     THEN Fail(Caught(o, RetryFailed(out.response)))
                     ELSE Return(o, out.response)
    /\ UNCHANGED <<config, service, suspended, invocations, op, slug, message, paymentData, trace, initialResponse, txResponse, receipt>>

\* the payment call made before the approval's wait has resolved
AfterApprovalNotAwaited(rcpt, payment) == <<payment, Waited("approve", rcpt)>>

\* the payment call submitted a second time
AfterApprovalPayingTwice(rcpt, payment) == <<Waited("approve", rcpt), payment, payment>>

\* `await approveTx.wait(1);` and then the payment call: what the two add to the
\* trace.  The receipt the wait resolved with is not looked at.
AfterApproval(rcpt, payment) == <<Waited("approve", rcpt), payment>>

\* `await approveTx.wait(1)` resolves and the code goes on to the payment call
Approved(o, payment) ==
    /\ op = o /\ pc = "approveWait"
    /\ \E out \in WaitOutcomes :
         IF out.threw
           THEN Fail(Caught(o, WaitRejected)) /\ UNCHANGED trace
           ELSE /\ Goto("pay")
                /\ trace' = trace \o AfterApproval(out.receipt, payment)
    /\ UNCHANGED <<config, service, suspended, invocations, op, slug, message, paymentData, initialResponse, txResponse, receipt, retryResponse>>

\* the caller calls a public method, once the invocation before it has ended; the
\* method starts with fresh locals and its first statement is the initial fetch
Invoke(o, s, m, request) ==
    /\ pc \in {"idle", "returned", "failed"}
    /\ invocations < MaxInvocations
    /\ invocations' = invocations + 1
    /\ op' = o /\ slug' = s /\ message' = m
    /\ paymentData' = NoPaymentData
    /\ trace' = <<Fetch(request)>>
    /\ pc' = "initialFetch"
    /\ initialResponse' = NoResponse
    /\ txResponse' = NoTx
    /\ receipt' = NoReceipt
    /\ retryResponse' = NoResponse
    /\ result' = NoResult
    /\ UNCHANGED <<config, service, suspended>>

\* the challenge the invocation is paying
Challenge(notFound) == PaymentDetail(initialResponse, notFound)

---------------------------------------------------------------------------
(* generateAIResponse(agentSlug, message) *)

generateAIResponse_request(s, m) ==
    Request("POST", <<ApiBaseUrl, "/agent/", s, "/chat">>,
            Headers("application/json", Absent, Absent), JsonStringifyMessage(m))

generateAIResponse_call ==
    \E s \in Slugs, m \in Messages :
        Invoke("generateAIResponse", s, m, generateAIResponse_request(s, m))

\* lines 148-181: the initial response, the challenge, the approve call
generateAIResponse_initial ==
    /\ op = "generateAIResponse" /\ pc = "initialFetch"
    /\ \E out \in FetchOutcomes(InitialBodies) :
         IF out.threw
           THEN Fail(AgentCatch(FetchFailed)) /\ UNCHANGED <<trace, initialResponse>>
           ELSE /\ initialResponse' = out.response
                /\ IF ~Ok(out.response) /\ out.response.status # PAYMENT_REQUIRED
                     THEN /\ Fail(AgentCatch(UnexpectedStatus(out.response.status)))
                          /\ UNCHANGED trace
                     ELSE LET pd == PaymentDetail(out.response,
                                                  "Payment detail not found in response.")
                          IN  IF ~pd.ok
                                THEN Fail(AgentCatch(pd.error)) /\ UNCHANGED trace
                                ELSE /\ Goto("approve")
                                     /\ trace' = Append(trace,
                                          Call("approve", MUSD_ADDRESS,
                                               <<pd.receiverAddress, pd.amount>>))
    /\ UNCHANGED <<config, service, suspended, invocations, op, slug, message, paymentData, txResponse, receipt, retryResponse>>

generateAIResponse_approve ==
    Submitted("generateAIResponse", "approve", "approveWait")

generateAIResponse_approved ==
    LET pd == Challenge("Payment detail not found in response.")
    IN  Approved("generateAIResponse",
                 Call("transfer", MUSD_ADDRESS, <<pd.receiverAddress, pd.amount>>))

generateAIResponse_transfer ==
    Submitted("generateAIResponse", "pay", "payWait")

generateAIResponse_receipt ==
    Confirmed("generateAIResponse", "Payment transaction failed.")

generateAIResponse_retry == Retried("generateAIResponse")

generateAIResponse ==
    \/ generateAIResponse_call
    \/ generateAIResponse_initial
    \/ generateAIResponse_approve
    \/ generateAIResponse_approved
    \/ generateAIResponse_transfer
    \/ generateAIResponse_receipt
    \/ generateAIResponse_retry

---------------------------------------------------------------------------
(* generateAIResponseEscrow(agentSlug, message) *)

generateAIResponseEscrow_request(s, m) ==
    Request("POST", <<ApiBaseUrl, "/agent/escrow/", s, "/chat">>,
            Headers("application/json", Absent, Absent), JsonStringifyMessage(m))

generateAIResponseEscrow_call ==
    \E s \in Slugs, m \in Messages :
        Invoke("generateAIResponseEscrow", s, m, generateAIResponseEscrow_request(s, m))

\* lines 234-268: the initial response, the challenge, the approve call
generateAIResponseEscrow_initial ==
    /\ op = "generateAIResponseEscrow" /\ pc = "initialFetch"
    /\ \E out \in FetchOutcomes(InitialBodies) :
         IF out.threw
           THEN Fail(AgentCatch(FetchFailed)) /\ UNCHANGED <<trace, initialResponse>>
           ELSE /\ initialResponse' = out.response
                /\ IF ~Ok(out.response) /\ out.response.status # PAYMENT_REQUIRED
                     THEN /\ Fail(AgentCatch(UnexpectedStatus(out.response.status)))
                          /\ UNCHANGED trace
                     ELSE LET pd == PaymentDetail(out.response,
                                                  "Payment detail not found in response.")
                          IN  IF ~pd.ok
                                THEN Fail(AgentCatch(pd.error)) /\ UNCHANGED trace
                                ELSE /\ Goto("approve")
                                     /\ trace' = Append(trace,
                                          Call("approve", MUSD_ADDRESS,
                                               <<pd.escrowAddress, pd.amount>>))
    /\ UNCHANGED <<config, service, suspended, invocations, op, slug, message, paymentData, txResponse, receipt, retryResponse>>

generateAIResponseEscrow_approve ==
    Submitted("generateAIResponseEscrow", "approve", "approveWait")

generateAIResponseEscrow_approved ==
    LET pd == Challenge("Payment detail not found in response.")
    IN  Approved("generateAIResponseEscrow",
                 Call("createTx", pd.escrowAddress,
                      <<pd.transactionId, pd.receiverAddress, pd.amount>>))

generateAIResponseEscrow_createTx ==
    Submitted("generateAIResponseEscrow", "pay", "payWait")

generateAIResponseEscrow_receipt ==
    Confirmed("generateAIResponseEscrow", "Escrow transaction failed.")

generateAIResponseEscrow_retry == Retried("generateAIResponseEscrow")

generateAIResponseEscrow ==
    \/ generateAIResponseEscrow_call
    \/ generateAIResponseEscrow_initial
    \/ generateAIResponseEscrow_approve
    \/ generateAIResponseEscrow_approved
    \/ generateAIResponseEscrow_createTx
    \/ generateAIResponseEscrow_receipt
    \/ generateAIResponseEscrow_retry

---------------------------------------------------------------------------
(* getProxyEndpoint(gatewaySlug) *)

\* fetch(url) with no init: a GET without headers or body
getProxyEndpoint_request(s) ==
    Request("GET", <<ApiBaseUrl, "/", s>>, NoHeaders, NoRequestBody)

getProxyEndpoint_call ==
    \E s \in Slugs, m \in {Absent} :
        Invoke("getProxyEndpoint", s, m, getProxyEndpoint_request(s))

\* lines 331-375: the initial response, the challenge, the transfer call
getProxyEndpoint_initial ==
    /\ op = "getProxyEndpoint" /\ pc = "initialFetch"
    /\ \E out \in FetchOutcomes(InitialBodies) :
         IF out.threw
           THEN /\ Fail(ProxyCatch(InitialEndpointFailed(FetchFailed)))
                /\ UNCHANGED <<trace, initialResponse>>
           ELSE /\ initialResponse' = out.response
                /\ IF Ok(out.response)
                     THEN Return("getProxyEndpoint", out.response) /\ UNCHANGED trace
                   ELSE IF out.response.status # PAYMENT_REQUIRED
                     THEN /\ Fail(ProxyCatch(UnexpectedStatus(out.response.status)))
                          /\ UNCHANGED trace
                     ELSE LET pd == PaymentDetail(out.response, "Payment Detail not found.")
                          IN  IF ~pd.ok
                                THEN Fail(ProxyCatch(pd.error)) /\ UNCHANGED trace
                                ELSE /\ Goto("pay")
                                     /\ trace' = Append(trace,
                                          Call("transfer", MUSD_ADDRESS,
                                               <<pd.receiverAddress, pd.amount>>))
    /\ UNCHANGED <<config, service, suspended, invocations, op, slug, message, paymentData, txResponse, receipt, retryResponse>>

getProxyEndpoint_transfer ==
    Submitted("getProxyEndpoint", "pay", "payWait")

getProxyEndpoint_receipt ==
    Confirmed("getProxyEndpoint", "Payment transaction failed.")

getProxyEndpoint_retry == Retried("getProxyEndpoint")

getProxyEndpoint ==
    \/ getProxyEndpoint_call
    \/ getProxyEndpoint_initial
    \/ getProxyEndpoint_transfer
    \/ getProxyEndpoint_receipt
    \/ getProxyEndpoint_retry

---------------------------------------------------------------------------
(* getProxyEndpointEscrow(gatewaySlug) *)

getProxyEndpointEscrow_request(s) ==
    Request("GET", <<ApiBaseUrl, "/escrow/", s>>, NoHeaders, NoRequestBody)

getProxyEndpointEscrow_call ==
    \E s \in Slugs, m \in {Absent} :
        Invoke("getProxyEndpointEscrow", s, m, getProxyEndpointEscrow_request(s))

\* lines 419-460: the initial response, the challenge, the approve call
getProxyEndpointEscrow_initial ==
    /\ op = "getProxyEndpointEscrow" /\ pc = "initialFetch"
    /\ \E out \in FetchOutcomes(InitialBodies) :
         IF out.threw
           THEN /\ Fail(ProxyCatch(InitialEndpointFailed(FetchFailed)))
                /\ UNCHANGED <<trace, initialResponse>>
           ELSE /\ initialResponse' = out.response
                /\ IF Ok(out.response)
                     THEN Return("getProxyEndpointEscrow", out.response) /\ UNCHANGED trace
                   ELSE IF out.response.status # PAYMENT_REQUIRED
                     THEN /\ Fail(ProxyCatch(UnexpectedStatus(out.response.status)))
                          /\ UNCHANGED trace
                     ELSE LET pd == PaymentDetail(out.response, "Payment Detail not found.")
                          IN  IF ~pd.ok
                                THEN Fail(ProxyCatch(pd.error)) /\ UNCHANGED trace
                                ELSE /\ Goto("approve")
                                     /\ trace' = Append(trace,
                                          Call("approve", MUSD_ADDRESS,
                                               <<pd.escrowAddress, pd.amount>>))
    /\ UNCHANGED <<config, service, suspended, invocations, op, slug, message, paymentData, txResponse, receipt, retryResponse>>

getProxyEndpointEscrow_approve ==
    Submitted("getProxyEndpointEscrow", "approve", "approveWait")

getProxyEndpointEscrow_approved ==
    LET pd == Challenge("Payment Detail not found.")
    IN  Approved("getProxyEndpointEscrow",
                 Call("createTx", pd.escrowAddress,
                      <<pd.transactionId, pd.receiverAddress, pd.amount>>))

getProxyEndpointEscrow_createTx ==
    Submitted("getProxyEndpointEscrow", "pay", "payWait")

getProxyEndpointEscrow_receipt ==
    Confirmed("getProxyEndpointEscrow", "Escrow transaction failed.")

getProxyEndpointEscrow_retry == Retried("getProxyEndpointEscrow")

getProxyEndpointEscrow ==
    \/ getProxyEndpointEscrow_call
    \/ getProxyEndpointEscrow_initial
    \/ getProxyEndpointEscrow_approve
    \/ getProxyEndpointEscrow_approved
    \/ getProxyEndpointEscrow_createTx
    \/ getProxyEndpointEscrow_receipt
    \/ getProxyEndpointEscrow_retry

---------------------------------------------------------------------------
(* The older class of PaymentService.ts (lines 571-830): its challenge      *)
(* names the escrow contract contractAddress, the creator escrowAddress and *)
(* the amount amountPayment, which it hands to the ledger client as it is.  *)

ContractAddresses == {Absent, "0xEscrowContract", "not-an-address"}

\* paymentDetail.amountPayment: a JSON number, or undefined
AmountPayments == {Undefined, JsonNumber(2), JsonNumber(1500000), JsonNumber(-1)}

\* a challenge object of the older protocol: a record of the properties it has
Object2(t, e, a, c) ==
    LET texts   == [transactionId |-> t, escrowAddress |-> e, contractAddress |-> c]
        present == {f \in DOMAIN texts : texts[f] # Absent}
        fields  == IF a = Undefined THEN present ELSE present \cup {"amountPayment"}
    IN  [f \in fields |-> IF f = "amountPayment" THEN a ELSE texts[f]]

ChallengeBodies2 ==
    { JsonText(Object2(t, e, a, c)) :
        t \in TransactionIds, e \in EscrowAddresses, a \in AmountPayments,
        c \in ContractAddresses }

InitialBodies2 == ChallengeBodies2 \cup ContentBodies \cup {NullText, ForbiddenText}

\* TypeError of paymentDetail.transactionId when the body is null
NullDetailError ==
    Error("TypeError", <<"Cannot read properties of null (reading 'transactionId')">>)

ContractNotFound == PlainError("Contract address not found in payment details.")

\* from `await initialResponse.json()` to the contract address check
PaymentDetail2(resp) ==
    LET parsed == ParseJson(resp.body)
        detail == parsed.value
    IN  IF ~parsed.ok THEN [ok |-> FALSE, error |-> JsonSyntaxError]
        ELSE IF detail = JsNull THEN [ok |-> FALSE, error |-> NullDetailError]
        ELSE IF Falsy(Prop(detail, "contractAddress"))
          THEN [ok |-> FALSE, error |-> ContractNotFound]
        ELSE [ok |-> TRUE,
              transactionId   |-> Prop(detail, "transactionId"),
              escrowAddress   |-> Prop(detail, "escrowAddress"),
              contractAddress |-> Prop(detail, "contractAddress"),
              amountPayment   |-> IF "amountPayment" \in DOMAIN detail
                                    THEN detail.amountPayment ELSE Undefined]

Challenge2 == PaymentDetail2(initialResponse)

---------------------------------------------------------------------------
(* generateAIResponse(agentSlug, message) of the older class *)

generateAIResponse2_request(s, m) ==
    Request("POST", <<BASE_ENDPOINT, "/agent/", s, "/chat">>,
            Headers("application/json", Absent, Absent), JsonStringifyMessage(m))

generateAIResponse2_call ==
    \E s \in Slugs, m \in Messages :
        Invoke("generateAIResponse2", s, m, generateAIResponse2_request(s, m))

\* lines 660-691: the initial response, the challenge, the approve call
generateAIResponse2_initial ==
    /\ op = "generateAIResponse2" /\ pc = "initialFetch"
    /\ \E out \in FetchOutcomes(InitialBodies2) :
         IF out.threw
           THEN Fail(AgentCatch(FetchFailed)) /\ UNCHANGED <<trace, initialResponse>>
           ELSE /\ initialResponse' = out.response
                /\ IF ~Ok(out.response) /\ out.response.status # PAYMENT_REQUIRED
                     THEN /\ Fail(AgentCatch(UnexpectedStatus(out.response.status)))
                          /\ UNCHANGED trace
                     ELSE LET pd == PaymentDetail2(out.response)
                          IN  IF ~pd.ok
                                THEN Fail(AgentCatch(pd.error)) /\ UNCHANGED trace
                                ELSE /\ Goto("approve")
                                     /\ trace' = Append(trace,
                                          Call("approve", MUSD_ADDRESS,
                                               <<pd.contractAddress, pd.amountPayment>>))
    /\ UNCHANGED <<config, service, suspended, invocations, op, slug, message, paymentData, txResponse, receipt, retryResponse>>

generateAIResponse2_approve ==
    Submitted("generateAIResponse2", "approve", "approveWait")

generateAIResponse2_approved ==
    LET pd == Challenge2
    IN  Approved("generateAIResponse2",
                 Call("createTx", pd.contractAddress,
                      <<pd.transactionId, pd.escrowAddress, pd.amountPayment>>))

generateAIResponse2_createTx ==
    Submitted("generateAIResponse2", "pay", "payWait")

generateAIResponse2_receipt ==
    Confirmed("generateAIResponse2", "Escrow transaction failed.")

generateAIResponse2_retry == Retried("generateAIResponse2")

generateAIResponse2 ==
    \/ generateAIResponse2_call
    \/ generateAIResponse2_initial
    \/ generateAIResponse2_approve
    \/ generateAIResponse2_approved
    \/ generateAIResponse2_createTx
    \/ generateAIResponse2_receipt
    \/ generateAIResponse2_retry

---------------------------------------------------------------------------
(* getProxyEndpoint(gatewaySlug) of the older class *)

\* the initial fetch asks for `${BASE_ENDPOINT}/escrow/${gatewaySlug}`
getProxyEndpoint2_request(s) ==
    Request("GET", <<BASE_ENDPOINT, "/escrow/", s>>, NoHeaders, NoRequestBody)

getProxyEndpoint2_call ==
    \E s \in Slugs, m \in {Absent} :
        Invoke("getProxyEndpoint2", s, m, getProxyEndpoint2_request(s))

\* lines 750-778: the initial response, the challenge, the approve call
getProxyEndpoint2_initial ==
    /\ op = "getProxyEndpoint2" /\ pc = "initialFetch"
    /\ \E out \in FetchOutcomes(InitialBodies2) :
         IF out.threw
           THEN Fail(ProxyCatch2(FetchFailed)) /\ UNCHANGED <<trace, initialResponse>>
           ELSE /\ initialResponse' = out.response
                /\ IF Ok(out.response)
                     THEN Return("getProxyEndpoint2", out.response) /\ UNCHANGED trace
                   ELSE IF out.response.status # PAYMENT_REQUIRED
                     THEN /\ Fail(ProxyCatch2(UnexpectedStatus(out.response.status)))
                          /\ UNCHANGED trace
                     ELSE LET pd == PaymentDetail2(out.response)
                          IN  IF ~pd.ok
                                THEN Fail(ProxyCatch2(pd.error)) /\ UNCHANGED trace
                                ELSE /\ Goto("approve")
                                     /\ trace' = Append(trace,
                                          Call("approve", MUSD_ADDRESS,
                                               <<pd.contractAddress, pd.amountPayment>>))
    /\ UNCHANGED <<config, service, suspended, invocations, op, slug, message, paymentData, txResponse, receipt, retryResponse>>

getProxyEndpoint2_approve ==
    Submitted("getProxyEndpoint2", "approve", "approveWait")

getProxyEndpoint2_approved ==
    LET pd == Challenge2
    IN  Approved("getProxyEndpoint2",
                 Call("createTx", pd.contractAddress,
                      <<pd.transactionId, pd.escrowAddress, pd.amountPayment>>))

getProxyEndpoint2_createTx ==
    Submitted("getProxyEndpoint2", "pay", "payWait")

getProxyEndpoint2_receipt ==
    Confirmed("getProxyEndpoint2", "Escrow transaction failed.")

getProxyEndpoint2_retry == Retried("getProxyEndpoint2")

getProxyEndpoint2 ==
    \/ getProxyEndpoint2_call
    \/ getProxyEndpoint2_initial
    \/ getProxyEndpoint2_approve
    \/ getProxyEndpoint2_approved
    \/ getProxyEndpoint2_createTx
    \/ getProxyEndpoint2_receipt
    \/ getProxyEndpoint2_retry

---------------------------------------------------------------------------
(* payAndRetry({ paymentData, retryRequest }) of the older class *)

Recipients == {Absent, "0xReceiver", "not-an-address"}

\* paymentData.amount: the amount in wei, as text
PaymentAmounts == {"2", "1.5", "abc", "-1"}

PaymentData(amount, recipient) == [amount |-> amount, recipient |-> recipient]

PaymentDatas == { PaymentData(a, r) : a \in PaymentAmounts, r \in Recipients }

\* any text taken for an address
IsAddressIfPresent(a) == a # Absent

\* ethers.isAddress
IsAddress(a) == a \in ValidAddresses

\* BigInt(text): the integer the text writes, or a SyntaxError
ToBigInt(s) ==
    LET cs       == Chars(s)
        negative == cs # <<>> /\ cs[1] = "-"
        rest     == IF negative THEN Tail(cs) ELSE cs
    IN  IF \E i \in 1..Len(rest) : rest[i] \notin Digits
          THEN [ok |-> FALSE,
                error |-> Error("SyntaxError", <<"Cannot convert ", s, " to a BigInt">>)]
        ELSE [ok |-> TRUE,
              value |-> IF negative THEN 0 - DigitsValue(rest) ELSE DigitsValue(rest)]

InvalidRecipient(recipient) == Error("Error", <<"Invalid recipient address: ", recipient>>)

\* the headers object without the transaction hash
PaymentHeadersWithoutProof(txHash) ==
    [name \in {"X-Payment-Tx", "Content-Type"} |->
        IF name = "X-Payment-Tx" THEN Absent ELSE "application/json"]

\* the headers object handed to the callback
PaymentHeaders(txHash) ==
    [name \in {"X-Payment-Tx", "Content-Type"} |->
        IF name = "X-Payment-Tx" THEN txHash ELSE "application/json"]

\* trace entry: retryRequest(headers) is called
Callback(headers) == [ev |-> "callback", headers |-> headers]

\* what the caller's callback resolves with
CallbackValues == {[success |-> TRUE], [success |-> FALSE]}

CallbackRejected == PlainError("retry request rejected")

\* what the catch block reports for a thrown value that is no Error
UnknownError == PlainError("Unknown error occurred during payment flow")

\* a rejection with a value that is no Error: a plain object with a message of its own
ThrownObject == [message |-> <<"denied">>, plain |-> TRUE]

\* error instanceof Error
InstanceOfError(e) == "plain" \notin DOMAIN e

\* retryRequest(headers): resolves with a value, rejects with an Error, or rejects
\* with something that is no Error
CallbackOutcomes ==
    {[threw |-> TRUE, error |-> CallbackRejected], [threw |-> TRUE, error |-> ThrownObject]}
      \cup {[threw |-> FALSE, value |-> v] : v \in CallbackValues}

\* lines 603-624: the caller calls payAndRetry; validation, the transaction request
\* and the call of wallet.sendTransaction
payAndRetry_call ==
    /\ pc \in {"idle", "returned", "failed"}
    /\ invocations < MaxInvocations
    /\ invocations' = invocations + 1
    /\ op' = "payAndRetry" /\ slug' = Absent
    /\ initialResponse' = NoResponse
    /\ txResponse' = NoTx
    /\ receipt' = NoReceipt
    /\ retryResponse' = NoResponse
    /\ message' = Absent
    /\ \E given \in PaymentDatas :
         /\ paymentData' = given
         /\ IF ~IsAddress(given.recipient)
              THEN /\ Fail(AgentCatch(InvalidRecipient(given.recipient)))
                   /\ trace' = <<>>
            ELSE IF ~ToBigInt(given.amount).ok
              THEN /\ Fail(AgentCatch(ToBigInt(given.amount).error))
                   /\ trace' = <<>>
            ELSE /\ pc' = "pay"
                 /\ result' = NoResult
                 /\ trace' = <<Call("sendTransaction", "wallet",
                                    <<given.recipient,
                                      BigInt(ToBigInt(given.amount).value)>>)>>
    /\ UNCHANGED <<config, service, suspended>>

\* `await this.wallet.sendTransaction(txRequest)` resolves
payAndRetry_sendTransaction ==
    Submitted("payAndRetry", "pay", "payWait")

\* lines 627-642: `await txResponse.wait(1)` resolves: the receipt check, the
\* headers and the call of retryRequest
payAndRetry_receipt ==
    /\ op = "payAndRetry" /\ pc = "payWait"
    /\ \E out \in WaitOutcomes :
         IF out.threw
           THEN Fail(AgentCatch(WaitRejected)) /\ UNCHANGED <<trace, receipt>>
           ELSE /\ receipt' = out.receipt
                /\ IF PaymentFailed(out.receipt)
                     THEN /\ Fail(AgentCatch(PlainError(
                                     "Transaction failed or was reverted on-chain.")))
                          /\ trace' = Append(trace, Waited("sendTransaction", out.receipt))
                     ELSE /\ Goto("callback")
                          /\ trace' = trace \o
                               <<Waited("sendTransaction", out.receipt),
                                 Callback(PaymentHeaders(FinalTxHash(out.receipt, txResponse)))>>
    /\ UNCHANGED <<config, service, suspended, invocations, op, slug, message, paymentData, initialResponse, txResponse, retryResponse>>

\* the callback called once more when it has rejected
payAndRetry_retryRequestTwice ==
    /\ op = "payAndRetry" /\ pc = "callback"
    /\ \E out \in CallbackOutcomes :
         /\ retryResponse' = out
         /\ IF out.threw
              THEN /\ Fail(AgentCatch(IF InstanceOfError(out.error) THEN out.error
                                           ELSE UnknownError))
                   /\ trace' = Append(trace, trace[Len(trace)])
              ELSE /\ UNCHANGED trace
                   /\ pc' = "returned"
                   /\ result' = [kind |-> "returned", value |-> out.value]
    /\ UNCHANGED <<config, service, suspended, invocations, op, slug, message, paymentData, initialResponse, txResponse, receipt>>

\* `return await retryRequest(headers)` settles
payAndRetry_retryRequest ==
    /\ op = "payAndRetry" /\ pc = "callback"
    /\ \E out \in CallbackOutcomes :
         /\ retryResponse' = out
         /\ IF out.threw
              THEN Fail(AgentCatch(IF InstanceOfError(out.error) THEN out.error
                                        ELSE UnknownError))
              ELSE /\ pc' = "returned"
                   /\ result' = [kind |-> "returned", value |-> out.value]
    /\ UNCHANGED <<config, service, suspended, invocations, op, slug, message, paymentData, trace, initialResponse, txResponse, receipt>>

payAndRetry ==
    \/ payAndRetry_call
    \/ payAndRetry_sendTransaction
    \/ payAndRetry_receipt
    \/ payAndRetry_retryRequest

---------------------------------------------------------------------------
(* new PaymentService(config) *)

\* the NETWORKS object literal
NETWORKS ==
    [mantle        |-> [name |-> "Mantle Mainnet", rpc |-> "https://rpc.mantle.xyz",
                        chainId |-> 5000],
     mantleTestnet |-> [name |-> "Mantle Testnet", rpc |-> "https://rpc.sepolia.mantle.xyz",
                        chainId |-> 5003],
     localhost     |-> [name |-> "Localhost", rpc |-> "http://127.0.0.1:8545",
                        chainId |-> 31337]]

\* property names every object literal inherits from Object.prototype
ObjectPrototypeKeys == {"constructor", "toString"}

\* what a property looked up on Object.prototype is: a function, which is truthy
\* and has none of the fields of a network entry
InheritedFunction == [function |-> TRUE]

\* obj[key] on an object literal: its own property, an inherited one, or undefined
Lookup(obj, key) ==
    IF key \in DOMAIN obj THEN obj[key]
    ELSE IF key \in ObjectPrototypeKeys THEN InheritedFunction
    ELSE Undefined

\* config.network as the caller may pass it
NetworkSelectors == {Absent, "", "mantle", "mantleTestnet", "localhost", "ethereum",
                     "constructor"}

RpcUrls == {Absent, "", "https://rpc.ankr.com/mantle"}

PrivateKeys ==
    {Absent, "not-a-key",
     "0x0123456789012345678901234567890123456789012345678901234567890123"}

\* the keys new ethers.Wallet accepts
ValidPrivateKeys == {"0x0123456789012345678901234567890123456789012345678901234567890123"}

ApiBaseUrls == {Absent, "http://localhost:3000"}

Config(privateKey, network, rpcUrl, apiBaseUrl) ==
    [privateKey |-> privateKey, network |-> network, rpcUrl |-> rpcUrl,
     apiBaseUrl |-> apiBaseUrl]

Configs ==
    { Config(k, n, r, a) :
        k \in PrivateKeys, n \in NetworkSelectors, r \in RpcUrls, a \in ApiBaseUrls }

\* new ethers.JsonRpcProvider(url): without a url it connects to the local node
JsonRpcProvider(url) == [url |-> IF url = Absent THEN "http://localhost:8545" ELSE url]

\* the instance before its constructor has run
NotConstructed == [constructed |-> FALSE]

\* the constructor: the fields of the new instance, or the error thrown
Construct(cfg) ==
    LET networkKey    == IF Falsy(cfg.network) THEN "mantle" ELSE cfg.network
        networkConfig == Lookup(NETWORKS, networkKey)
        rpcUrl        == IF ~Falsy(cfg.rpcUrl) THEN cfg.rpcUrl
                         ELSE Prop(networkConfig, "rpc")
    IN  IF networkConfig = Undefined /\ Falsy(cfg.rpcUrl)
          THEN [ok |-> FALSE,
                error |-> Error("Error", <<"Invalid network: ", networkKey,
                                           " and no RPC URL provided.">>)]
        ELSE IF cfg.privateKey \notin ValidPrivateKeys
          THEN [ok |-> FALSE, error |-> PlainError("Invalid private key provided.")]
        ELSE [ok |-> TRUE,
              service |-> [constructed |-> TRUE,
                           provider    |-> JsonRpcProvider(rpcUrl),
                           wallet      |-> [privateKey |-> cfg.privateKey],
                           apiBaseUrl  |-> IF Falsy(cfg.apiBaseUrl) THEN ApiBaseUrl
                                           ELSE cfg.apiBaseUrl]]

\* the caller constructs the service
constructor ==
    /\ op = "none" /\ pc = "idle" /\ service = NotConstructed
    /\ op' = "constructor"
    /\ LET made == Construct(config)
       IN  IF made.ok
             THEN /\ service' = made.service
                  /\ pc' = "returned"
                  /\ result' = [kind |-> "constructed"]
             ELSE /\ Fail(made.error)
                  /\ UNCHANGED service
    /\ UNCHANGED <<config, suspended, invocations, slug, message, paymentData, trace, initialResponse,
                   txResponse, receipt, retryResponse>>

\* the configuration the methods are exercised with
ServiceConfig ==
    Config("0x0123456789012345678901234567890123456789012345678901234567890123",
           "localhost", Absent, Absent)

---------------------------------------------------------------------------
(* The service after construction: no invocation yet *)

Init ==
    /\ config = ServiceConfig
    /\ service = Construct(ServiceConfig).service
    /\ suspended = <<>>
    /\ invocations = 0
    /\ op = "none"
    /\ slug = Absent
    /\ message = Absent
    /\ paymentData = NoPaymentData
    /\ pc = "idle"
    /\ trace = <<>>
    /\ initialResponse = NoResponse
    /\ txResponse = NoTx
    /\ receipt = NoReceipt
    /\ retryResponse = NoResponse
    /\ result = NoResult

Next ==
    \/ generateAIResponse
    \/ generateAIResponseEscrow
    \/ getProxyEndpoint
    \/ getProxyEndpointEscrow

Spec == Init /\ [][Next]_vars

---------------------------------------------------------------------------
(* The file holds two versions of the class.  Under SpecBoth the caller    *)
(* invokes the methods of either; an invocation runs the code of the       *)
(* version its method belongs to.                                          *)

NextBoth ==
    \/ generateAIResponse
    \/ generateAIResponseEscrow
    \/ getProxyEndpoint
    \/ getProxyEndpointEscrow
    \/ generateAIResponse2
    \/ getProxyEndpoint2
    \/ payAndRetry

SpecBoth == Init /\ [][NextBoth]_vars

---------------------------------------------------------------------------
(* The agent flows with more than one message: under SpecAgent the caller  *)
(* invokes generateAIResponse (of either version) and                      *)
(* generateAIResponseEscrow with any of AgentMessages.                     *)

AgentMessages == {"Hello", "Hi"}

generateAIResponse_callAny ==
    \E s \in Slugs, m \in AgentMessages :
        Invoke("generateAIResponse", s, m, generateAIResponse_request(s, m))

generateAIResponseEscrow_callAny ==
    \E s \in Slugs, m \in AgentMessages :
        Invoke("generateAIResponseEscrow", s, m, generateAIResponseEscrow_request(s, m))

generateAIResponse2_callAny ==
    \E s \in Slugs, m \in AgentMessages :
        Invoke("generateAIResponse2", s, m, generateAIResponse2_request(s, m))

NextAgent ==
    \/ generateAIResponse_callAny
    \/ generateAIResponse_initial
    \/ generateAIResponse_approve
    \/ generateAIResponse_approved
    \/ generateAIResponse_transfer
    \/ generateAIResponse_receipt
    \/ generateAIResponse_retry
    \/ generateAIResponseEscrow_callAny
    \/ generateAIResponseEscrow_initial
    \/ generateAIResponseEscrow_approve
    \/ generateAIResponseEscrow_approved
    \/ generateAIResponseEscrow_createTx
    \/ generateAIResponseEscrow_receipt
    \/ generateAIResponseEscrow_retry
    \/ generateAIResponse2_callAny
    \/ generateAIResponse2_initial
    \/ generateAIResponse2_approve
    \/ generateAIResponse2_approved
    \/ generateAIResponse2_createTx
    \/ generateAIResponse2_receipt
    \/ generateAIResponse2_retry

SpecAgent == Init /\ [][NextAgent]_vars

---------------------------------------------------------------------------
(* Every external call settles.  A step that resumes an invocation is the  *)
(* answer to its pending await (the response or the rejection of a fetch,  *)
(* of a ledger submission, of a confirmation wait, of the callback); under *)
(* SpecLive no await stays pending for ever.  The caller is not obliged to *)
(* invoke anything.                                                        *)

\* the answers termination is explored with: every status class of the initial
\* response (2xx, 402, any other), and one hash for the ledger's transactions
\* and receipts, since no branch of the code reads a hash
LiveAnswers ==
    /\ initialResponse # NoResponse => initialResponse.status \in {200, PAYMENT_REQUIRED, 500}
    /\ txResponse \in {NoTx, [hash |-> "0xHashA"]}
    /\ \A i \in 1..Len(trace) :
         (trace[i].ev = "waited" /\ trace[i].receipt.present)
           => trace[i].receipt.hash = "0xHashA"

NextLive == NextBoth /\ LiveAnswers'

Resume == invocations' = invocations /\ NextLive

\* a resuming step moves the invocation to another await or settles it
SpecLive == Init /\ [][NextLive]_vars /\ WF_<<pc, trace>>(Resume)

---------------------------------------------------------------------------
(* getAddress(): the one public method that is no flow (lines 512-514, and *)
(* 828-830 in the older class).  It is synchronous: it returns within the  *)
(* caller's step.                                                          *)

\* wallet.address: the address ethers derives from the wallet's key
Address(wallet) == [addressOf |-> wallet.privateKey]

\* the method with an assignment to this.wallet before its return
getAddressRekeying ==
    /\ pc \in {"idle", "returned", "failed"}
    /\ invocations < MaxInvocations
    /\ invocations' = invocations + 1
    /\ op' = "getAddress" /\ slug' = Absent /\ message' = Absent
    /\ paymentData' = NoPaymentData
    /\ trace' = <<>>
    /\ initialResponse' = NoResponse
    /\ txResponse' = NoTx
    /\ receipt' = NoReceipt
    /\ retryResponse' = NoResponse
    /\ pc' = "returned"
    /\ result' = [kind |-> "returned", value |-> Address(service.wallet)]
    /\ service' = [service EXCEPT !.wallet = [privateKey |-> "0x0"]]
    /\ UNCHANGED <<config, suspended>>

\* return this.wallet.address
getAddress ==
    /\ pc \in {"idle", "returned", "failed"}
    /\ invocations < MaxInvocations
    /\ invocations' = invocations + 1
    /\ op' = "getAddress" /\ slug' = Absent /\ message' = Absent
    /\ paymentData' = NoPaymentData
    /\ trace' = <<>>
    /\ initialResponse' = NoResponse
    /\ txResponse' = NoTx
    /\ receipt' = NoReceipt
    /\ retryResponse' = NoResponse
    /\ pc' = "returned"
    /\ result' = [kind |-> "returned", value |-> Address(service.wallet)]
    /\ UNCHANGED <<config, service, suspended>>

\* every public method of the file
NextPublic ==
    \/ NextBoth
    \/ getAddress

SpecPublic == Init /\ [][NextPublic]_vars

---------------------------------------------------------------------------
(* Invocations in flight together.  A method is an async function: it runs *)
(* until its next await and the caller's thread is free again, so the      *)
(* caller may invoke another method before the first has settled.  Each    *)
(* invocation has its own locals; the event loop runs one continuation at  *)
(* a time, that of whichever invocation's await has resolved.              *)

\* the locals of the invocation that is running
Locals ==
    [op |-> op, slug |-> slug, message |-> message, paymentData |-> paymentData, pc |-> pc,
     trace |-> trace,
     initialResponse |-> initialResponse, txResponse |-> txResponse, receipt |-> receipt,
     retryResponse |-> retryResponse, result |-> result]

\* the invocation stays at its await (or has settled); the thread is free for the
\* caller to invoke another method
Suspend ==
    /\ pc # "idle"
    /\ suspended = <<>>
    /\ invocations < MaxInvocations
    /\ suspended' = <<Locals>>
    /\ op' = "none"
    /\ slug' = Absent
    /\ message' = Absent
    /\ paymentData' = NoPaymentData
    /\ pc' = "idle"
    /\ trace' = <<>>
    /\ initialResponse' = NoResponse
    /\ txResponse' = NoTx
    /\ receipt' = NoReceipt
    /\ retryResponse' = NoResponse
    /\ result' = NoResult
    /\ UNCHANGED <<config, service, invocations>>

\* the event loop turns to the other invocation
Switch ==
    /\ pc # "idle"
    /\ suspended # <<>>
    /\ suspended' = <<Locals>>
    /\ op' = suspended[1].op
    /\ slug' = suspended[1].slug
    /\ message' = suspended[1].message
    /\ paymentData' = suspended[1].paymentData
    /\ pc' = suspended[1].pc
    /\ trace' = suspended[1].trace
    /\ initialResponse' = suspended[1].initialResponse
    /\ txResponse' = suspended[1].txResponse
    /\ receipt' = suspended[1].receipt
    /\ retryResponse' = suspended[1].retryResponse
    /\ result' = suspended[1].result
    /\ UNCHANGED <<config, service, invocations>>

\* the answers of the server the interleavings are explored with
ConcurrentInitialResponses ==
    { Response(402, JsonText(Object("0xTx9", "2", "0xReceiver", "0xEscrow"))),
      Response(200, JsonText([data |-> "free"])),
      Response(500, ForbiddenText) }

ConcurrentRetryResponses ==
    { Response(200, JsonText([data |-> "paid"])), Response(403, ForbiddenText) }

\* and of the ledger: the payment transaction is submitted under one hash, and
\* is confirmed, reverted or lost under any
ConcurrentAnswers ==
    /\ initialResponse \in {NoResponse} \cup ConcurrentInitialResponses
    /\ retryResponse \in {NoResponse} \cup ConcurrentRetryResponses
    /\ txResponse \in {NoTx, [hash |-> "0xHashA"]}

NextConcurrent ==
    \/ Next /\ ConcurrentAnswers'
    \/ Suspend
    \/ Switch

SpecConcurrent == Init /\ [][NextConcurrent]_vars

---------------------------------------------------------------------------
(* Construction on its own: the caller has a configuration and constructs  *)
(* the service with it                                                     *)

InitConstruction ==
    /\ config \in Configs
    /\ service = NotConstructed
    /\ suspended = <<>>
    /\ invocations = 0
    /\ op = "none"
    /\ slug = Absent
    /\ message = Absent
    /\ paymentData = NoPaymentData
    /\ pc = "idle"
    /\ trace = <<>>
    /\ initialResponse = NoResponse
    /\ txResponse = NoTx
    /\ receipt = NoReceipt
    /\ retryResponse = NoResponse
    /\ result = NoResult

NextConstruction == constructor

SpecConstruction == InitConstruction /\ [][NextConstruction]_vars

---------------------------------------------------------------------------
(* What the properties read off an invocation *)

Operations == {"generateAIResponse", "generateAIResponseEscrow",
               "getProxyEndpoint", "getProxyEndpointEscrow"}

EscrowOperations == {"generateAIResponseEscrow", "getProxyEndpointEscrow"}

DirectOperations == {"generateAIResponse", "getProxyEndpoint"}

Fetches == SelectSeq(trace, IsFetch)

LedgerCalls == SelectSeq(trace, IsCall)

\* positions of the trace holding a ledger call of fn / a resolved wait of fn's transaction
CallsOf(fn) == {i \in 1..Len(trace) : trace[i].ev = "call" /\ trace[i].fn = fn}

WaitsOf(fn) == {i \in 1..Len(trace) : trace[i].ev = "waited" /\ trace[i].fn = fn}

PaymentWaits == WaitsOf("transfer") \cup WaitsOf("createTx")

\* the initial response has arrived
Answered == op \in Operations /\ initialResponse # NoResponse

RetryIssued == Len(Fetches) = 2

\* the invocation got a 402 challenge
Challenged == Answered /\ initialResponse.status = 402

\* the thrown error's message holds the text part
Mentions(part) == \E i \in 1..Len(result.error.message) : result.error.message[i] = part

---------------------------------------------------------------------------
(* C1: no payment on free content.  Once an initial response with a 2xx    *)
(* status (and a JSON body) has arrived, the invocation has returned that  *)
(* body's parsed value, its trace holds no ledger call and the initial     *)
(* fetch is its only HTTP request.  generateAIResponse and                 *)
(* generateAIResponseEscrow do not return on a 2xx response: they read it  *)
(* as a challenge.                                                         *)
C1_NoPaymentOnFreeContent ==
    (Answered /\ initialResponse.status \in 200..299
              /\ initialResponse.body.kind \in {"null", "object"})
      => /\ pc = "returned"
         /\ result.kind = "returned"
         /\ result.value = IF initialResponse.body.kind = "object"
                              THEN initialResponse.body.object ELSE JsNull
         /\ LedgerCalls = <<>>
         /\ Len(Fetches) = 1

---------------------------------------------------------------------------
(* C2: escrow ordering.  In an escrow-mode invocation that got a 402 and   *)
(* issued its retry fetch, the trace is exactly: initial fetch, approve    *)
(* call, approve wait resolved, createTx call, createTx wait resolved with *)
(* a success receipt, retry fetch.                                         *)
C2_EscrowOrdering ==
    (op \in EscrowOperations /\ Challenged /\ RetryIssued)
      => /\ Len(trace) = 6
         /\ trace[1].ev = "fetch"
         /\ trace[2].ev = "call" /\ trace[2].fn = "approve"
         /\ trace[3].ev = "waited" /\ trace[3].fn = "approve"
         /\ trace[4].ev = "call" /\ trace[4].fn = "createTx"
         /\ trace[5].ev = "waited" /\ trace[5].fn = "createTx"
         /\ trace[5].receipt.present /\ trace[5].receipt.status = 1
         /\ trace[6].ev = "fetch"

C2_Witness ==
    /\ op \in EscrowOperations /\ Challenged /\ RetryIssued
    /\ pc = "returned"

---------------------------------------------------------------------------
(* C3: direct-mode payment.  In a direct-mode invocation that got a 402,   *)
(* no approve call is ever made, and once the retry fetch is issued        *)
(* exactly one transfer call precedes it.  generateAIResponse approves     *)
(* the receiver before it transfers.                                       *)
C3_DirectModePayment ==
    (op \in DirectOperations /\ Challenged)
      => /\ CallsOf("approve") = {}
         /\ RetryIssued => Cardinality(CallsOf("transfer")) = 1

---------------------------------------------------------------------------
(* C4: a failed payment blocks the retry.  When the wait of the payment    *)
(* transaction (transfer or createTx) resolved with no receipt or with a   *)
(* status other than 1, the invocation has failed and no fetch follows     *)
(* that wait in the trace.                                                 *)
C4_FailedPaymentBlocksRetry ==
    \A i \in PaymentWaits :
        (~trace[i].receipt.present \/ trace[i].receipt.status # 1)
          => /\ pc = "failed"
             /\ result.kind = "threw"
             /\ \A j \in (i + 1)..Len(trace) : trace[j].ev # "fetch"

C4_Witness ==
    /\ op \in Operations
    /\ \E i \in PaymentWaits : trace[i].receipt.present /\ trace[i].receipt.status = 0
    /\ pc = "failed"

---------------------------------------------------------------------------
(* C5: proof header.  The initial request carries no x-payment-tx header,  *)
(* and the retry request carries x-payment-tx equal to the hash on the     *)
(* receipt the payment transaction's wait resolved with, whatever the      *)
(* hashes of the transaction response and of the approval receipt are.     *)
C5_ProofHeader ==
    /\ Len(trace) >= 1 => trace[1].req.headers.paymentTx = Absent
    /\ RetryIssued =>
         /\ Cardinality(PaymentWaits) = 1
         /\ \A i \in PaymentWaits :
              /\ trace[i].receipt.present
              /\ Fetches[2].req.headers.paymentTx = trace[i].receipt.hash
              /\ Fetches[2].req.headers.paymentTx \in Hashes

C5_Witness ==
    /\ RetryIssued
    /\ \E i \in PaymentWaits : trace[i].receipt.hash # txResponse.hash
    /\ \E i \in PaymentWaits, j \in WaitsOf("approve") :
         trace[j].receipt.present /\ trace[j].receipt.hash # trace[i].receipt.hash

---------------------------------------------------------------------------
(* C6: malformed challenge.  When the 402 body is a JSON object without a  *)
(* receiver address, whatever its other fields, the invocation has failed  *)
(* with the 'Receiver address not found' cause, with no ledger call and no *)
(* retry fetch.  The code scales the amount before it looks for the        *)
(* receiver, so a body that also lacks a usable amount fails with the      *)
(* error of the scaling instead.                                           *)
C6_MalformedChallenge ==
    (Challenged /\ initialResponse.body.kind = "object"
                /\ "receiverAddress" \notin DOMAIN initialResponse.body.object)
      => /\ pc = "failed"
         /\ Mentions("Receiver address not found in payment details.")
         /\ LedgerCalls = <<>>
         /\ Len(Fetches) = 1

---------------------------------------------------------------------------
(* C7: challenge address validation precedes payment.  When the 402        *)
(* body's receiver address, or in escrow mode its escrow address, is       *)
(* absent or is no valid chain address, the invocation makes no ledger     *)
(* call.  The code only checks that the receiver address is present.       *)
C7_AddressValidationPrecedesPayment ==
    (/\ Challenged
     /\ initialResponse.body.kind = "object"
     /\ \/ Prop(initialResponse.body.object, "receiverAddress") \notin ValidAddresses
        \/ /\ op \in EscrowOperations
           /\ Prop(initialResponse.body.object, "escrowAddress") \notin ValidAddresses)
      => LedgerCalls = <<>>

---------------------------------------------------------------------------
(* C8: unexpected status.  When the initial response's status is neither   *)
(* 2xx nor 402, the invocation has failed with the 'Unexpected status      *)
(* code' error carrying that status, and its trace holds the initial fetch *)
(* and nothing else.                                                       *)
C8_UnexpectedStatus ==
    (Answered /\ initialResponse.status \notin 200..299 /\ initialResponse.status # 402)
      => /\ pc = "failed"
         /\ result.kind = "threw"
         /\ Mentions("Unexpected status code: ")
         /\ "status" \in DOMAIN result.error
         /\ result.error.status = initialResponse.status
         /\ Len(trace) = 1 /\ trace[1].ev = "fetch"

C8_Witness ==
    /\ Answered /\ initialResponse.status = 500
    /\ pc = "failed"

---------------------------------------------------------------------------
(* C9: a failed approval stops the escrow flow.  In an escrow-mode         *)
(* invocation, when the wait of the approval transaction resolved with no  *)
(* receipt or with a status other than 1, the invocation has failed, no    *)
(* createTx call is made and no retry fetch is issued.  The code does not  *)
(* look at the approval's receipt.                                         *)
C9_FailedApprovalStops ==
    (/\ op \in EscrowOperations
     /\ \E i \in WaitsOf("approve") :
          ~trace[i].receipt.present \/ trace[i].receipt.status # 1)
      => /\ pc = "failed"
         /\ CallsOf("createTx") = {}
         /\ ~RetryIssued

---------------------------------------------------------------------------
(* C10: retry rejection is terminal.  When the retried response is not     *)
(* 2xx, the invocation has failed with the 'Retry failed' error carrying   *)
(* the retry's status and body text, and the retry fetch is the last entry *)
(* of its trace: no ledger call and no fetch follows it.                   *)
C10_RetryRejectionIsTerminal ==
    (op \in Operations /\ retryResponse # NoResponse
                       /\ retryResponse.status \notin 200..299)
      => /\ pc = "failed"
         /\ result.kind = "threw"
         /\ Mentions("Retry failed: ")
         /\ {"status", "text"} \subseteq DOMAIN result.error
         /\ result.error.status = retryResponse.status
         /\ result.error.text = retryResponse.body
         /\ RetryIssued
         /\ trace[Len(trace)].ev = "fetch"
         /\ Cardinality(PaymentWaits) = 1

C10_Witness ==
    /\ op \in Operations /\ retryResponse # NoResponse
    /\ retryResponse.status = 403 /\ retryResponse.body = ForbiddenText
    /\ pc = "failed"

---------------------------------------------------------------------------
(* C11: initial transport failure.  When the initial fetch itself threw    *)
(* (the invocation has failed and no initial response ever arrived), the   *)
(* thrown error carries the transport's error, and the trace holds the     *)
(* initial fetch and nothing else: no ledger call, no further fetch.       *)
C11_InitialTransportFailure ==
    (op \in Operations /\ pc = "failed" /\ initialResponse = NoResponse)
      => /\ result.kind = "threw"
         /\ Mentions("fetch failed")
         /\ trace = <<trace[1]>>
         /\ trace[1].ev = "fetch"
         /\ txResponse = NoTx /\ receipt = NoReceipt /\ retryResponse = NoResponse

C11_Witness ==
    /\ op = "getProxyEndpoint" /\ pc = "failed" /\ initialResponse = NoResponse
    /\ Mentions("Initial Endpoint Failed: ")

---------------------------------------------------------------------------
(* What the properties read off an invocation of either version *)

PaymentCalls == CallsOf("transfer") \cup CallsOf("createTx") \cup CallsOf("sendTransaction")

\* resolved waits of the payment transaction, native transfer included
PaymentWaitsBoth == PaymentWaits \cup WaitsOf("sendTransaction")

---------------------------------------------------------------------------
(* C12: no on-chain retry.  In an invocation of any operation of either    *)
(* version, payAndRetry included, the trace never holds more than one      *)
(* approve call nor more than one payment call (transfer, createTx or      *)
(* sendTransaction), and no ledger call follows a payment wait that        *)
(* resolved with no receipt or with a status other than 1.                 *)
C12_NoOnChainRetry ==
    /\ Cardinality(CallsOf("approve")) <= 1
    /\ Cardinality(PaymentCalls) <= 1
    /\ \A i \in PaymentWaitsBoth :
         (~trace[i].receipt.present \/ trace[i].receipt.status # 1)
           => \A j \in (i + 1)..Len(trace) : trace[j].ev # "call"

C12_Witness ==
    /\ op = "payAndRetry" /\ pc = "failed"
    /\ \E i \in WaitsOf("sendTransaction") :
         trace[i].receipt.present /\ trace[i].receipt.status = 0

---------------------------------------------------------------------------
(* C13: the retry targets the original request.  In every flow of either   *)
(* version, once the retry fetch is issued it has the method, the URL and  *)
(* the body of the invocation's initial fetch.  The older getProxyEndpoint *)
(* asks /escrow/<slug> first and retries /<slug>.                          *)
C13_RetryTargetsOriginalRequest ==
    RetryIssued
      => /\ Fetches[2].req.method = Fetches[1].req.method
         /\ Fetches[2].req.url = Fetches[1].req.url
         /\ Fetches[2].req.body = Fetches[1].req.body

---------------------------------------------------------------------------
(* C14: the payment path follows the challenge.  When the 402 body names   *)
(* an escrow address, no transfer call is made, and a createTx call comes  *)
(* after an approve call.  The code takes the path of the method that was  *)
(* called: getProxyEndpoint and generateAIResponse transfer to the         *)
(* receiver whatever the challenge names.                                  *)
C14_PaymentPathFollowsChallenge ==
    (/\ Challenged
     /\ initialResponse.body.kind = "object"
     /\ "escrowAddress" \in DOMAIN initialResponse.body.object)
      => /\ CallsOf("transfer") = {}
         /\ \A i \in CallsOf("createTx") : \E j \in CallsOf("approve") : j < i

---------------------------------------------------------------------------
(* Amounts as the properties read them *)

\* the integer the ledger client is handed
AmountValue(a) == IF "bigint" \in DOMAIN a THEN a.bigint ELSE a.number

\* the digits of a decimal text without its point, and how many follow the point
AmountDigits(s) == SelectSeq(Chars(s), LAMBDA c : c \in Digits)

FractionDigits(s) ==
    LET cs   == Chars(s)
        dots == {i \in 1..Len(cs) : cs[i] = "."}
    IN  IF dots = {} THEN 0 ELSE Len(cs) - (CHOOSE i \in dots : TRUE)

\* decimal texts of a non-negative amount with at most six fractional digits
HumanAmounts == {"1.5", "2", "0.000001"}

\* v is the amount the text writes, times 10^6
IsScaled(v, s) == v * Pow10(FractionDigits(s)) = DigitsValue(AmountDigits(s)) * Pow10(6)

\* the escrow flows of the older version and the challenge it pays
EscrowOperations2 == {"generateAIResponse2", "getProxyEndpoint2"}

Challenged2 ==
    /\ op \in EscrowOperations2 /\ initialResponse # NoResponse
    /\ initialResponse.body.kind = "object"
    /\ "amountPayment" \in DOMAIN initialResponse.body.object

---------------------------------------------------------------------------
(* C15: escrow call arguments.  In every escrow flow of either version,    *)
(* the approve call is made on the token with the challenge's escrow       *)
(* contract as spender, the createTx call is made on that escrow contract  *)
(* with the challenge's transaction id and receiver, and both carry the    *)
(* challenge's amount times 10^6.  The older version (whose challenge      *)
(* names the contract contractAddress and the receiver escrowAddress)      *)
(* passes amountPayment as it is.                                          *)
C15_EscrowCallArguments ==
    /\ (op \in EscrowOperations /\ Answered /\ initialResponse.body.kind = "object")
         => LET detail == initialResponse.body.object
            IN  /\ \A i \in CallsOf("approve") :
                     /\ trace[i].contract = MUSD_ADDRESS
                     /\ trace[i].args[1] = Prop(detail, "escrowAddress")
                     /\ Prop(detail, "amount") \in HumanAmounts
                          => IsScaled(AmountValue(trace[i].args[2]), detail.amount)
                /\ \A i \in CallsOf("createTx") :
                     /\ trace[i].contract = Prop(detail, "escrowAddress")
                     /\ trace[i].args[1] = Prop(detail, "transactionId")
                     /\ trace[i].args[2] = Prop(detail, "receiverAddress")
                     /\ \A j \in CallsOf("approve") : trace[i].args[3] = trace[j].args[2]
    /\ Challenged2
         => LET detail == initialResponse.body.object
            IN  /\ \A i \in CallsOf("approve") :
                     /\ trace[i].contract = MUSD_ADDRESS
                     /\ trace[i].args[1] = Prop(detail, "contractAddress")
                     /\ AmountValue(trace[i].args[2])
                          = detail.amountPayment.number * Pow10(6)
                /\ \A i \in CallsOf("createTx") :
                     /\ trace[i].contract = Prop(detail, "contractAddress")
                     /\ trace[i].args[1] = Prop(detail, "transactionId")
                     /\ trace[i].args[2] = Prop(detail, "escrowAddress")
                     /\ \A j \in CallsOf("approve") : trace[i].args[3] = trace[j].args[2]

---------------------------------------------------------------------------
(* C16: amount scaling.  In every flow that pays in the token, of either   *)
(* version, the amount of every approve, transfer and createTx call is the *)
(* challenge's amount times 10^6, for the amounts with at most six         *)
(* fractional digits.  The older version passes amountPayment unscaled.    *)
C16_AmountScaling ==
    /\ (/\ Answered
         /\ initialResponse.body.kind = "object"
         /\ Prop(initialResponse.body.object, "amount") \in HumanAmounts)
         => \A i \in 1..Len(trace) :
              trace[i].ev = "call"
                => IsScaled(AmountValue(trace[i].args[Len(trace[i].args)]),
                            initialResponse.body.object.amount)
    /\ Challenged2
         => \A i \in 1..Len(trace) :
              trace[i].ev = "call"
                => AmountValue(trace[i].args[Len(trace[i].args)])
                     = initialResponse.body.object.amountPayment.number * Pow10(6)

---------------------------------------------------------------------------
(* C17: payAndRetry input validation.  When paymentData.recipient is not a *)
(* valid address, the invocation has failed with the 'Invalid recipient    *)
(* address' error and its trace is empty: no transaction was sent and the  *)
(* callback was not called.                                                *)
C17_PayAndRetryValidation ==
    (op = "payAndRetry" /\ paymentData.recipient \notin ValidAddresses)
      => /\ pc = "failed"
         /\ result.kind = "threw"
         /\ Mentions("Invalid recipient address: ")
         /\ trace = <<>>
         /\ txResponse = NoTx /\ receipt = NoReceipt

C17_Witness ==
    /\ op = "payAndRetry" /\ paymentData.recipient = "not-an-address"
    /\ pc = "failed"

---------------------------------------------------------------------------
(* What the properties read off an invocation of payAndRetry *)

Callbacks == {i \in 1..Len(trace) : trace[i].ev = "callback"}

\* amounts BigInt() accepts
IntegerAmounts == {"2", "-1"}

\* from the call on: one sendTransaction call and nothing else before its wait; the
\* callback is called once, after a wait that resolved with a receipt of status 1,
\* with that receipt's hash; a failed receipt ends the invocation without callback;
\* what is returned is what the callback resolved with
PayAndRetryPath ==
    /\ Len(trace) >= 1
    /\ trace[1].ev = "call" /\ trace[1].fn = "sendTransaction"
    /\ trace[1].args[1] = paymentData.recipient
    /\ CallsOf("sendTransaction") = {1}
    /\ LedgerCalls = <<trace[1]>>
    /\ Cardinality(Callbacks) <= 1
    /\ \A i \in Callbacks :
         /\ i = 3
         /\ trace[2].ev = "waited" /\ trace[2].fn = "sendTransaction"
         /\ trace[2].receipt.present /\ trace[2].receipt.status = 1
         /\ trace[3].headers["X-Payment-Tx"] = trace[2].receipt.hash
         /\ trace[3].headers["X-Payment-Tx"] \in Hashes
    /\ \A i \in WaitsOf("sendTransaction") :
         (~trace[i].receipt.present \/ trace[i].receipt.status # 1)
           => Callbacks = {} /\ pc = "failed"
    /\ pc = "returned"
         => /\ Callbacks # {}
            /\ ~retryResponse.threw
            /\ result = [kind |-> "returned", value |-> retryResponse.value]

---------------------------------------------------------------------------
(* C18: payAndRetry success path, for a valid recipient and an amount that *)
(* BigInt accepts: PayAndRetryPath holds throughout the invocation.        *)
C18_PayAndRetrySuccessPath ==
    (/\ op = "payAndRetry"
     /\ paymentData.recipient \in ValidAddresses
     /\ paymentData.amount \in IntegerAmounts)
      => PayAndRetryPath

C18_Witness ==
    /\ op = "payAndRetry" /\ pc = "returned"
    /\ paymentData.amount = "2"
    /\ result.value = [success |-> TRUE]
    /\ receipt.hash # txResponse.hash

(* C18 as stated, for every valid recipient whatever the amount: an amount *)
(* that BigInt rejects fails the invocation before anything is sent.       *)
C18_AnyAmount ==
    (op = "payAndRetry" /\ paymentData.recipient \in ValidAddresses)
      => PayAndRetryPath

---------------------------------------------------------------------------
(* What the properties read off a construction *)

KnownNetworks == {"mantle", "mantleTestnet", "localhost"}

\* the network asked for: the default one when the configuration names none
SelectedNetwork == IF config.network \in {Absent, ""} THEN "mantle" ELSE config.network

RpcOverrideGiven == config.rpcUrl \notin {Absent, ""}

---------------------------------------------------------------------------
(* C19: construction errors.  Once the constructor has run, it has thrown  *)
(* exactly when the network asked for is not a known one and no RPC URL    *)
(* override is given, or the private key cannot be parsed; otherwise the   *)
(* provider's endpoint is the override when one is given and the RPC of    *)
(* the network asked for (the default network when none is named) when     *)
(* not.  A selector that names a property every object inherits, such as   *)
(* "constructor", is found in the NETWORKS table and is not rejected.      *)
C19_ConstructionErrors ==
    (op = "constructor")
      => /\ (pc = "failed") <=>
              \/ SelectedNetwork \notin KnownNetworks /\ ~RpcOverrideGiven
              \/ config.privateKey \notin ValidPrivateKeys
         /\ (pc # "failed") =>
              /\ service.constructed
              /\ service.provider.url =
                   IF RpcOverrideGiven THEN config.rpcUrl ELSE NETWORKS[SelectedNetwork].rpc

---------------------------------------------------------------------------
(* What the properties read off invocations in flight together *)

\* the retry of the invocation with locals l carries the hash of the receipt its
\* own payment wait resolved with
OwnProof(l) ==
    LET fetches == SelectSeq(l.trace, IsFetch)
        waits   == {i \in 1..Len(l.trace) :
                      /\ l.trace[i].ev = "waited"
                      /\ l.trace[i].fn \in {"transfer", "createTx"}}
    IN  Len(fetches) = 2
          => /\ Cardinality(waits) = 1
             /\ \A i \in waits :
                  /\ l.trace[i].receipt.present
                  /\ l.trace[i].receipt = l.receipt
                  /\ fetches[2].req.headers.paymentTx = l.receipt.hash

OwnProofs == OwnProof(Locals) /\ \A k \in 1..Len(suspended) : OwnProof(suspended[k])

\* a step leaves the locals of the invocation that is not running as they are:
\* they change hands whole when the thread turns to it, and not otherwise
Isolated ==
    \/ suspended' = suspended
    \/ suspended = <<>> /\ suspended' = <<Locals>>
    \/ suspended # <<>> /\ suspended' = <<Locals>> /\ Locals' = suspended[1]

---------------------------------------------------------------------------
(* C20: independence of invocations.  With two invocations in flight and   *)
(* their continuations interleaved in any order (and with invocations made *)
(* one after another), the retry of each carries the hash of the receipt   *)
(* of its own payment, and no step of one invocation changes the locals of *)
(* the other: each runs on its own locals, as when it is alone.            *)
C20_IndependentInvocations == []OwnProofs /\ [][Isolated]_vars

C20_Witness ==
    /\ suspended # <<>>
    /\ pc = "retryFetch" /\ suspended[1].pc = "retryFetch"
    /\ receipt.hash # suspended[1].receipt.hash
    /\ op # suspended[1].op

---------------------------------------------------------------------------
(* C21: configuration is immutable.  No step of any public method (the     *)
(* flows of either version, payAndRetry, getAddress), on a returning or a  *)
(* failing path, changes the service's wallet, provider or API base URL:   *)
(* they stay what the constructor made of the configuration.               *)
C21_ConfigurationImmutable ==
    [][ /\ service'.wallet = service.wallet
        /\ service'.provider = service.provider
        /\ service'.apiBaseUrl = service.apiBaseUrl ]_vars

\* getAddress has returned the address after an invocation before it
C21_Witness ==
    /\ op = "getAddress" /\ pc = "returned"
    /\ invocations = MaxInvocations
    /\ result.value = Address(Construct(config).service.wallet)

---------------------------------------------------------------------------
(* What the error-wrapping property reads *)

\* the fixed prefix of the operation's catch block
Prefix(o) ==
    IF o \in {"getProxyEndpoint", "getProxyEndpointEscrow", "getProxyEndpoint2"}
      THEN "Proxy Endpoint Failed: "
      ELSE "PaymentService Failed: "

\* the messages of the errors thrown inside the try blocks: by the transport, the
\* JSON parser, the ledger client, the amount and address conversions, the caller's
\* callback and the code's own throw statements (for a callback rejecting with a
\* value that is no Error, the text the catch block puts in its place)
InnerCauseMessages ==
    { FetchFailed.message, JsonSyntaxError.message, LedgerRejected.message,
      WaitRejected.message, NoAmountError.message, NullDetailError.message,
      InitialEndpointFailed(FetchFailed).message,
      <<"invalid FixedNumber string value">>, <<"too many decimals for format">>,
      <<"Unexpected status code: ">>, <<"Retry failed: ", " - ">>,
      ReceiverNotFound.message, ContractNotFound.message,
      <<"Payment detail not found in response.">>, <<"Payment Detail not found.">>,
      <<"Payment transaction failed.">>, <<"Escrow transaction failed.">>,
      <<"Transaction failed or was reverted on-chain.">>,
      CallbackRejected.message, UnknownError.message }
      \cup { InvalidRecipient(r).message : r \in Recipients }
      \cup { <<"Cannot convert ", a, " to a BigInt">> : a \in PaymentAmounts }

\* the invocation has thrown one error: the prefix, then the message of a cause
Wrapped ==
    /\ result.kind = "threw"
    /\ result.error.message # <<>>
    /\ result.error.message[1] = Prefix(op)
    /\ Tail(result.error.message) \in InnerCauseMessages

---------------------------------------------------------------------------
(* C22: uniform error wrapping.  An invocation of a flow or of payAndRetry *)
(* that has failed has thrown one error whose message is the operation's   *)
(* prefix ("PaymentService Failed: " for the agent flows and payAndRetry,  *)
(* "Proxy Endpoint Failed: " for the resource flows) followed by the       *)
(* message of the inner cause; and an invocation that has not failed has   *)
(* thrown nothing.                                                         *)
C22_UniformErrorWrapping ==
    op \notin {"none", "getAddress", "constructor"}
      => /\ pc = "failed" => Wrapped
         /\ pc # "failed" => result.kind # "threw"

---------------------------------------------------------------------------
(* What the termination property reads *)

InFlight == pc \notin {"idle", "returned", "failed"}

\* one of the two terminal outcomes, and the result says which
Settled ==
    \/ pc = "returned" /\ result.kind = "returned"
    \/ pc = "failed" /\ result.kind = "threw"

\* ledger submissions of the invocation: contract calls and sendTransaction
Submissions == {i \in 1..Len(trace) : trace[i].ev = "call"}

---------------------------------------------------------------------------
(* C23: every invocation terminates in one of two outcomes.  Provided      *)
(* every external call settles, an invocation in flight eventually has     *)
(* returned or has failed; at no point has it made more than two HTTP      *)
(* requests or more than two ledger submissions; and it is always either   *)
(* in flight or in exactly one of the two terminal outcomes.               *)
C23_Terminates ==
    /\ [](op # "none" => /\ Len(Fetches) <= 2
                         /\ Cardinality(Submissions) <= 2
                         /\ InFlight \/ Settled)
    /\ InFlight ~> Settled

\* a flow has settled after two requests and two submissions
C23_Witness ==
    /\ Settled
    /\ Len(Fetches) = 2
    /\ Cardinality(Submissions) = 2

---------------------------------------------------------------------------
(* What the agent retry property reads *)

AgentOperations == {"generateAIResponse", "generateAIResponseEscrow", "generateAIResponse2"}

---------------------------------------------------------------------------
(* C24: agent retry headers and body.  In generateAIResponse (of either    *)
(* version) and generateAIResponseEscrow, the retry is a POST whose        *)
(* headers hold Content-Type: application/json and an x-payment-tx, and    *)
(* whose body is the JSON encoding of the message the method was called    *)
(* with: the body of the initial request.                                  *)
C24_AgentRetryHeadersAndBody ==
    (op \in AgentOperations /\ RetryIssued)
      => /\ Fetches[2].req.method = "POST"
         /\ Fetches[2].req.headers.contentType = "application/json"
         /\ Fetches[2].req.headers.paymentTx \in Hashes
         /\ Fetches[2].req.body = JsonStringifyMessage(message)
         /\ Fetches[2].req.body = Fetches[1].req.body

\* the retry of an invocation whose message is not the first of the set
C24_Witness ==
    /\ op \in AgentOperations /\ RetryIssued
    /\ message = "Hi"
    /\ Fetches[1].req.body = JsonStringifyMessage("Hi")

---------------------------------------------------------------------------
(* What the retry transport failure property reads *)

Flows == Operations \cup EscrowOperations2

\* the retry fetch was issued and rejected: the invocation has no retry response
RetryThrew ==
    /\ op \in Flows /\ pc = "failed"
    /\ Len(Fetches) >= 2
    /\ retryResponse = NoResponse

---------------------------------------------------------------------------
(* C25: retry transport failure after payment.  In every flow of either    *)
(* version, when the retry fetch itself has thrown after the payment was   *)
(* confirmed, the invocation has failed with the error of its catch block  *)
(* (the operation's prefix, and the transport error's message in it), the  *)
(* retry fetch is the last thing the invocation did (no ledger call and no *)
(* HTTP request after it), and the only step that follows is another       *)
(* invocation.                                                             *)
C25_RetryTransportFailure ==
    /\ [](RetryThrew
            => /\ result.kind = "threw"
               /\ result.error.message[1] = Prefix(op)
               /\ Mentions("fetch failed")
               /\ Len(Fetches) = 2
               /\ trace[Len(trace)] = Fetches[2]
               /\ \E i \in PaymentWaits :
                    trace[i].receipt.present /\ trace[i].receipt.status = 1)
    /\ [][RetryThrew => invocations' = invocations + 1]_vars

C25_Witness ==
    /\ RetryThrew
    /\ op \in {"getProxyEndpoint", "generateAIResponseEscrow", "getProxyEndpoint2"}
    /\ Len(trace) >= 4

---------------------------------------------------------------------------
(* What the content-after-challenge property reads *)

\* the flow has returned and its initial response was a 402
ReturnedAfterChallenge ==
    /\ op \in Flows /\ pc = "returned"
    /\ initialResponse # NoResponse
    /\ initialResponse.status = PAYMENT_REQUIRED

\* positions of the trace holding the retry fetch
RetryFetches == {i \in 2..Len(trace) : trace[i].ev = "fetch"}

---------------------------------------------------------------------------
(* C26: content after a challenge implies a confirmed payment.  When a     *)
(* flow of either version has returned and its initial response had status *)
(* 402, the invocation submitted exactly one payment transaction, the wait *)
(* for it resolved with a receipt of success status before the retry       *)
(* request was made, the retry response is a 2xx, and the returned value   *)
(* is the parsed body of that response.                                    *)
C26_ContentAfterChallenge ==
    ReturnedAfterChallenge
      => /\ Cardinality(PaymentCalls) = 1
         /\ txResponse # NoTx
         /\ Cardinality(PaymentWaits) = 1
         /\ Cardinality(RetryFetches) = 1
         /\ \A i \in PaymentWaits :
              /\ trace[i].receipt.present
              /\ trace[i].receipt.status = 1
              /\ \A c \in PaymentCalls : c < i
              /\ \A j \in RetryFetches : i < j
         /\ retryResponse # NoResponse
         /\ Ok(retryResponse)
         /\ ParseJson(retryResponse.body).ok
         /\ result = [kind |-> "returned", value |-> ParseJson(retryResponse.body).value]

\* content returned after a challenge whose body differs from the retry's
C26_Witness ==
    /\ ReturnedAfterChallenge
    /\ ParseJson(initialResponse.body).ok
    /\ result.value # ParseJson(initialResponse.body).value

---------------------------------------------------------------------------
(* What the unusable-challenge property reads *)

\* the 402 body parses to null, or to an object without an amount
UnusableChallenge ==
    /\ Challenged
    /\ \/ initialResponse.body.kind = "null"
       \/ /\ initialResponse.body.kind = "object"
          /\ "amount" \notin DOMAIN initialResponse.body.object

---------------------------------------------------------------------------
---------------------------------------------------------------------------
(* What the callback failure property reads *)

\* the callback was called after a confirmed payment and has thrown
CallbackThrew ==
    /\ op = "payAndRetry"
    /\ "threw" \in DOMAIN retryResponse
    /\ retryResponse.threw

\* one transaction, confirmed; then one call of the callback, the last thing the
\* invocation did; and the invocation has failed with the agent prefix
FailedAfterOneCallback ==
    /\ pc = "failed"
    /\ result.kind = "threw"
    /\ result.error.message[1] = "PaymentService Failed: "
    /\ Cardinality(CallsOf("sendTransaction")) = 1
    /\ Cardinality(Callbacks) = 1
    /\ Len(trace) \in Callbacks
    /\ \A i \in WaitsOf("sendTransaction") :
         trace[i].receipt.present /\ trace[i].receipt.status = 1

---------------------------------------------------------------------------
(* C28: payAndRetry callback failure, for a callback that throws an Error. *)
(* When the callback has thrown after a confirmed payment, payAndRetry has *)
(* failed; the callback was called once and one transaction was sent, and  *)
(* nothing follows but another invocation; the message is "PaymentService  *)
(* Failed: " followed by the message of the thrown Error, and, when the    *)
(* thrown value is no Error, by "Unknown error occurred during payment     *)
(* flow".                                                                  *)
C28_CallbackFailure ==
    /\ [](CallbackThrew
            => /\ FailedAfterOneCallback
               /\ Tail(result.error.message)
                    = IF InstanceOfError(retryResponse.error)
                        THEN retryResponse.error.message
                        ELSE UnknownError.message)
    /\ [][CallbackThrew => invocations' = invocations + 1]_vars

C28_Witness ==
    /\ CallbackThrew
    /\ InstanceOfError(retryResponse.error)
    /\ result.error.message = <<"PaymentService Failed: ", "retry request rejected">>
    /\ receipt.hash # txResponse.hash

(* C28 as stated, for whatever the callback throws: the message is the     *)
(* prefix followed by the message of what was thrown.                      *)
C28_AnyThrownValue ==
    CallbackThrew
      => /\ FailedAfterOneCallback
         /\ Tail(result.error.message) = retryResponse.error.message

====
